---- MODULE Spec2Model ----
\* A model of CRUD.py: an interactive shell over one PostgreSQL table,
\* "students", reached through psycopg2.  Python strings are sequences of
\* code points, so that str.strip() and int() are computed.
EXTENDS Integers, Sequences, FiniteSets, TLC

VARIABLES
    pc,          \* "start", "menu", "terminated", "aborted", "crashed"
    exitCode,    \* the process's exit status; -1 while it runs
    env,         \* the process environment: PGHOST, PGPORT, PGDATABASE, PGUSER, PGPASSWORD
    tableExists, \* whether the students table exists in the database
    students,    \* the table's rows, in heap order
    nextId,      \* the next value of the id column's SERIAL sequence
    now,         \* the database clock, NOW()
    openConns,   \* connections opened by get_conn() and not closed
    menuPrinted, \* whether show_menu() has run
    last,        \* what the last handler did: call, outcome, log line
    ledger       \* what the operator was told: id -> name, email, live

vars == <<pc, exitCode, env, tableExists, students, nextId, now, openConns,
          menuPrinted, last, ledger>>

----------------------------------------------------------------------------
\* Bounds

\* The SERIAL sequence is drawn up to this value.
MaxId == 2
\* The handlers that reach the database run while the clock is below this.
MaxNow == 3

----------------------------------------------------------------------------
\* Python values
\*
\* A string is the sequence of its code points.

\* Python's None: no string, since no code point is negative.
NONE == <<0 - 1>>

\* The printable ASCII characters by runs of consecutive code points, from
\* U+0020 to U+007E without the quotation mark, the backslash and the grave
\* accent.
AsciiRuns ==
    {[from |-> 32, chars |-> <<" ", "!">>],
     [from |-> 35,
      chars |-> <<"#", "$", "%", "&", "'", "(", ")", "*", "+", ",", "-", ".",
                  "/", "0", "1", "2", "3", "4", "5", "6", "7", "8", "9", ":",
                  ";", "<", "=", ">", "?", "@", "A", "B", "C", "D", "E", "F",
                  "G", "H", "I", "J", "K", "L", "M", "N", "O", "P", "Q", "R",
                  "S", "T", "U", "V", "W", "X", "Y", "Z", "[">>],
     [from |-> 93,
      chars |-> <<"]", "^", "_">>],
     [from |-> 97,
      chars |-> <<"a", "b", "c", "d", "e", "f", "g", "h", "i", "j", "k", "l",
                  "m", "n", "o", "p", "q", "r", "s", "t", "u", "v", "w", "x",
                  "y", "z", "{", "|", "}", "~">>]}

\* The code point of one of these characters.
Ord(ch) ==
    LET run == CHOOSE r \in AsciiRuns : \E i \in DOMAIN r.chars : r.chars[i] = ch
    IN  run.from - 1 + (CHOOSE i \in DOMAIN run.chars : run.chars[i] = ch)

\* The string of a tuple of printable ASCII characters.
S(chars) == [i \in DOMAIN chars |-> Ord(chars[i])]

\* The characters str.isspace() holds of, which str.strip() removes
\* (Unicode 14.0.0).
Whitespace ==
    {9, 10, 11, 12, 13, 28, 29, 30, 31, 32, 133, 160, 5760, 8192, 8193,
     8194, 8195, 8196, 8197, 8198, 8199, 8200, 8201, 8202, 8232, 8233,
     8239, 8287, 12288}

\* The blanks int() accepts around a number: those of str.strip() without
\* the separators U+001C to U+001F.
IntWhitespace == Whitespace \ (28..31)

\* The digit zero of every run of Unicode decimal digits (category Nd); the
\* digits 1 to 9 of a run follow its zero.
DigitZeros ==
    {48, 1632, 1776, 1984, 2406, 2534, 2662, 2790, 2918, 3046, 3174, 3302,
     3430, 3558, 3664, 3792, 3872, 4160, 4240, 6112, 6160, 6470, 6608,
     6784, 6800, 6992, 7088, 7232, 7248, 42528, 43216, 43264, 43472, 43504,
     43600, 44016, 65296, 66720, 68912, 69734, 69872, 69942, 70096, 70384,
     70736, 70864, 71248, 71360, 71472, 71904, 72016, 72784, 73040, 73120,
     92768, 92864, 93008, 120782, 120792, 120802, 120812, 120822, 123200,
     123632, 125264, 130032}

Digits == UNION {z..(z + 9) : z \in DigitZeros}

DigitVal(c) == c - (CHOOSE z \in DigitZeros : c \in z..(z + 9))

\* sys.get_int_max_str_digits(): int() rejects a string of more digits.
IntMaxStrDigits == 4300

RECURSIVE lstripOf(_, _)
lstripOf(s, blanks) ==
    IF s # <<>> /\ Head(s) \in blanks THEN lstripOf(Tail(s), blanks) ELSE s

RECURSIVE rstripOf(_, _)
rstripOf(s, blanks) ==
    IF s # <<>> /\ s[Len(s)] \in blanks
    THEN rstripOf(SubSeq(s, 1, Len(s) - 1), blanks)
    ELSE s

\* str.strip()
strip(s) == rstripOf(lstripOf(s, Whitespace), Whitespace)

\* `x or None` for a string x: the empty string is falsy.
OrNone(s) == IF s = <<>> THEN NONE ELSE s

Underscore == Ord("_")
PlusSign == Ord("+")
MinusSign == Ord("-")

DigitOrUnderscore == Digits \cup {Underscore}

RECURSIVE DigitsValue(_, _)
DigitsValue(s, acc) ==
    IF s = <<>> THEN acc
    ELSE IF Head(s) = Underscore THEN DigitsValue(Tail(s), acc)
    ELSE DigitsValue(Tail(s), 10 * acc + DigitVal(Head(s)))

\* The digits of a decimal literal: digits, single underscores between them.
IsDigitRun(s) ==
    /\ s # <<>>
    /\ \A i \in 1..Len(s) : s[i] \in DigitOrUnderscore
    /\ s[1] \in Digits
    /\ s[Len(s)] \in Digits
    /\ \A i \in 1..(Len(s) - 1) : ~(s[i] = Underscore /\ s[i + 1] = Underscore)

NumDigits(s) == Cardinality({i \in 1..Len(s) : s[i] \in Digits})

\* int(s) for a string s: surrounding blanks dropped, an optional sign, then
\* a digit run of at most IntMaxStrDigits digits; anything else raises
\* ValueError.
PyInt(s) ==
    LET t == rstripOf(lstripOf(s, IntWhitespace), IntWhitespace)
        signed == t # <<>> /\ t[1] \in {PlusSign, MinusSign}
        body == IF signed THEN Tail(t) ELSE t
    IN  IF IsDigitRun(body) /\ NumDigits(body) <= IntMaxStrDigits
        THEN [ok |-> TRUE,
              val |-> IF signed /\ t[1] = MinusSign
                      THEN 0 - DigitsValue(body, 0)
                      ELSE DigitsValue(body, 0)]
        ELSE [ok |-> FALSE, val |-> 0]

----------------------------------------------------------------------------
\* Configuration

Localhost == S(<<"l", "o", "c", "a", "l", "h", "o", "s", "t">>)
Postgres == S(<<"p", "o", "s", "t", "g", "r", "e", "s">>)
DefaultPort == S(<<"5", "4", "3", "2">>)

\* Mutant: the default also for a variable set to the empty string.
getenv_or_default(e, name, default) ==
    IF e[name] = NONE \/ e[name] = <<>> THEN default ELSE e[name]

\* os.getenv(name, default): the default only when the variable is unset.
getenv(e, name, default) == IF e[name] = NONE THEN default ELSE e[name]

\* Mutant: a port that int() rejects falls back to the default port.
get_conn_params_fallback(e) ==
    LET given == PyInt(getenv(e, "PGPORT", DefaultPort))
    IN  [err |-> "",
         host |-> getenv(e, "PGHOST", Localhost),
         port |-> IF given.ok THEN given.val
                  ELSE PyInt(DefaultPort).val,
         dbname |-> getenv(e, "PGDATABASE", Postgres),
         user |-> getenv(e, "PGUSER", Postgres),
         password |-> getenv(e, "PGPASSWORD", Postgres)]

\* get_conn_params(): err is "ValueError" when int() rejects the port.
get_conn_params(e) ==
    LET port == PyInt(getenv(e, "PGPORT", DefaultPort))
    IN  [err |-> IF port.ok THEN "" ELSE "ValueError",
         host |-> getenv(e, "PGHOST", Localhost),
         port |-> port.val,
         dbname |-> getenv(e, "PGDATABASE", Postgres),
         user |-> getenv(e, "PGUSER", Postgres),
         password |-> getenv(e, "PGPASSWORD", Postgres)]

----------------------------------------------------------------------------
\* The students table: the statements the repository sends

Range(f) == {f[i] : i \in DOMAIN f}

Ids(tbl) == {tbl[i].id : i \in DOMAIN tbl}

RECURSIVE WithoutId(_, _)
WithoutId(tbl, id) ==
    IF tbl = <<>> THEN <<>>
    ELSE IF Head(tbl).id = id THEN WithoutId(Tail(tbl), id)
    ELSE <<Head(tbl)>> \o WithoutId(Tail(tbl), id)

\* ORDER BY id
RECURSIVE OrderById(_)
OrderById(tbl) ==
    IF tbl = <<>> THEN <<>>
    ELSE LET m == CHOOSE r \in Range(tbl) : \A q \in Range(tbl) : r.id <= q.id
         IN  <<m>> \o OrderById(WithoutId(tbl, m.id))

\* Mutant: the email column without its UNIQUE constraint.
SqlInsertNoUnique(tbl, id, ts, name, email) ==
    IF name = NONE \/ email = NONE
    THEN [err |-> "NotNullViolation", tbl |-> tbl]
    ELSE [err |-> "",
          tbl |-> Append(tbl, [id |-> id, name |-> name, email |-> email,
                               created_at |-> ts])]

\* INSERT INTO students(name, email) VALUES(%s, %s) RETURNING id
\* under name TEXT NOT NULL, email TEXT UNIQUE NOT NULL.  The id is drawn
\* from the sequence before the constraints are checked.
SqlInsert(tbl, id, ts, name, email) ==
    IF name = NONE \/ email = NONE
    THEN [err |-> "NotNullViolation", tbl |-> tbl]
    ELSE IF \E r \in Range(tbl) : r.email = email
    THEN [err |-> "UniqueViolation", tbl |-> tbl]
    ELSE [err |-> "",
          tbl |-> Append(tbl, [id |-> id, name |-> name, email |-> email,
                               created_at |-> ts])]

\* Mutant: the query without ORDER BY, the rows in heap order.
SqlSelectUnordered(tbl) == tbl

\* SELECT id, name, email, created_at FROM students ORDER BY id
SqlSelect(tbl) == OrderById(tbl)

\* Mutant: both columns always set, an absent one to the empty string.
SqlUpdateBothColumns(tbl, id, name, email) ==
    IF id \notin Ids(tbl)
    THEN [err |-> "", tbl |-> tbl, rowcount |-> 0]
    ELSE LET old == CHOOSE r \in Range(tbl) : r.id = id
             new == [old EXCEPT
                        !.name = IF name = NONE THEN <<>> ELSE name,
                        !.email = IF email = NONE THEN <<>> ELSE email]
         IN  IF \E r \in Range(tbl) : r.id # id /\ r.email = new.email
             THEN [err |-> "UniqueViolation", tbl |-> tbl, rowcount |-> 0]
             ELSE [err |-> "", tbl |-> Append(WithoutId(tbl, id), new),
                   rowcount |-> 1]

\* UPDATE students SET <the supplied columns> WHERE id=%s.  The new row
\* version is written after the rows already in the heap.
SqlUpdate(tbl, id, name, email) ==
    IF id \notin Ids(tbl)
    THEN [err |-> "", tbl |-> tbl, rowcount |-> 0]
    ELSE LET old == CHOOSE r \in Range(tbl) : r.id = id
             new == [old EXCEPT
                        !.name = IF name = NONE THEN @ ELSE name,
                        !.email = IF email = NONE THEN @ ELSE email]
         IN  IF \E r \in Range(tbl) : r.id # id /\ r.email = new.email
             THEN [err |-> "UniqueViolation", tbl |-> tbl, rowcount |-> 0]
             ELSE [err |-> "", tbl |-> Append(WithoutId(tbl, id), new),
                   rowcount |-> 1]

\* Mutant: the count reported as 1 whether or not a row matched.
SqlDeleteCountsOne(tbl, id) ==
    [tbl |-> WithoutId(tbl, id), rowcount |-> 1]

\* DELETE FROM students WHERE id=%s
SqlDelete(tbl, id) ==
    [tbl |-> WithoutId(tbl, id),
     rowcount |-> IF id \in Ids(tbl) THEN 1 ELSE 0]

----------------------------------------------------------------------------
\* The repository.  Each result says what the call did: err (the exception
\* raised, "" for none), ret (the value returned), rows (list_students'
\* value), tbl and seq (the table and its sequence afterwards), opened
\* (connections opened) and stmts (statements sent).

\* get_conn(): psycopg2.connect(**get_conn_params()).
get_conn(e, reachable) ==
    IF get_conn_params(e).err # "" THEN [err |-> get_conn_params(e).err, opened |-> 0]
    ELSE IF ~reachable THEN [err |-> "OperationalError", opened |-> 0]
    ELSE [err |-> "", opened |-> 1]

Outcome(err, ret, rows, tbl, seq, opened, stmts) ==
    [err |-> err, ret |-> ret, rows |-> rows, tbl |-> tbl, seq |-> seq,
     opened |-> opened, stmts |-> stmts]

\* create_student(name, email): the connection block commits on return and
\* rolls back on an exception.
create_student(e, reachable, tbl, seq, ts, name, email) ==
    LET c == get_conn(e, reachable)
        ins == SqlInsert(tbl, seq, ts, name, email)
    IN  IF c.err # "" THEN Outcome(c.err, 0, <<>>, tbl, seq, 0, 0)
        ELSE IF ins.err # "" THEN Outcome(ins.err, 0, <<>>, tbl, seq + 1, 1, 1)
        ELSE Outcome("", seq, <<>>, ins.tbl, seq + 1, 1, 1)

\* list_students()
list_students(e, reachable, tbl, seq) ==
    LET c == get_conn(e, reachable)
    IN  IF c.err # "" THEN Outcome(c.err, 0, <<>>, tbl, seq, 0, 0)
        ELSE Outcome("", 0, SqlSelect(tbl), tbl, seq, 1, 1)

\* Mutant: no early return when neither field is supplied; the statement
\* with an empty SET list is sent and rejected.
update_student_always_sends(e, reachable, tbl, seq, id, name, email) ==
    LET c == get_conn(e, reachable)
        upd == SqlUpdate(tbl, id, name, email)
    IN  IF c.err # "" THEN Outcome(c.err, 0, <<>>, tbl, seq, 0, 0)
        ELSE IF name = NONE /\ email = NONE
        THEN Outcome("SyntaxError", 0, <<>>, tbl, seq, 1, 1)
        ELSE IF upd.err # "" THEN Outcome(upd.err, 0, <<>>, tbl, seq, 1, 1)
        ELSE Outcome("", upd.rowcount, <<>>, upd.tbl, seq, 1, 1)

\* update_student(student_id, name=None, email=None)
update_student(e, reachable, tbl, seq, id, name, email) ==
    LET c == get_conn(e, reachable)
        upd == SqlUpdate(tbl, id, name, email)
    IN  IF name = NONE /\ email = NONE THEN Outcome("", 0, <<>>, tbl, seq, 0, 0)
        ELSE IF c.err # "" THEN Outcome(c.err, 0, <<>>, tbl, seq, 0, 0)
        ELSE IF upd.err # "" THEN Outcome(upd.err, 0, <<>>, tbl, seq, 1, 1)
        ELSE Outcome("", upd.rowcount, <<>>, upd.tbl, seq, 1, 1)

\* delete_student(student_id)
delete_student(e, reachable, tbl, seq, id) ==
    LET c == get_conn(e, reachable)
        del == SqlDelete(tbl, id)
    IN  IF c.err # "" THEN Outcome(c.err, 0, <<>>, tbl, seq, 0, 0)
        ELSE Outcome("", del.rowcount, <<>>, del.tbl, seq, 1, 1)

\* init_db(): CREATE TABLE IF NOT EXISTS students(...), then the log line.
init_db(e, reachable, permitted, exists) ==
    LET c == get_conn(e, reachable)
    IN  IF c.err # "" THEN [err |-> c.err, exists |-> exists, opened |-> 0, stmts |-> 0]
        ELSE IF ~permitted
        THEN [err |-> "InsufficientPrivilege", exists |-> exists, opened |-> 1, stmts |-> 1]
        ELSE [err |-> "", exists |-> TRUE, opened |-> 1, stmts |-> 1]

----------------------------------------------------------------------------
\* What the operator can type, and the environments the process starts in

\* A blank line (TAB, space); "a"; "b" between a no-break space and a unit
\* separator.
TextLines == {<<9, 32>>, S(<<"a">>), <<160>> \o S(<<"b">>) \o <<31>>}

\* A line of one digit more than int() accepts.
LongDigits == [i \in 1..(IntMaxStrDigits + 1) |-> Ord("1")]

\* "1"; TAB "2" NBSP; "+" and ARABIC-INDIC DIGIT THREE; "x".
IdLines == {S(<<"1">>), <<9>> \o S(<<"2">>) \o <<160>>, <<Ord("+"), 1635>>,
            S(<<"x">>)}

ChoiceLines == {S(<<"1">>), <<9>> \o S(<<"2">>), S(<<"3">>), S(<<"4", " ">>),
                <<12288>> \o S(<<"5">>), S(<<"6">>), <<>>}

\* The choices main() compares the stripped line with.
ChoiceCreate == S(<<"1">>)
ChoiceList == S(<<"2">>)
ChoiceUpdate == S(<<"3">>)
ChoiceDelete == S(<<"4">>)
ChoiceQuit == S(<<"5">>)

HostValues == {NONE, <<>>, S(<<"h">>)}
\* Unset; empty; "80"; TAB "80" NBSP; "x"; "80" after a file separator;
\* LongDigits.
PortValues == {NONE, <<>>, S(<<"8", "0">>), <<9>> \o S(<<"8", "0">>) \o <<160>>,
               S(<<"x">>), <<28>> \o S(<<"8", "0">>), LongDigits}
TextValues == {NONE, <<>>, S(<<"p">>)}

Envs == [PGHOST : HostValues, PGPORT : PortValues, PGDATABASE : TextValues,
         PGUSER : TextValues, PGPASSWORD : TextValues]

\* The environments of the shell's runs: the port unset, empty or malformed.
ShellEnvs ==
    {e \in Envs : /\ e.PGHOST = NONE /\ e.PGDATABASE = NONE
                  /\ e.PGUSER = NONE /\ e.PGPASSWORD = NONE
                  /\ e.PGPORT \in {NONE, <<>>, S(<<"x">>)}}

----------------------------------------------------------------------------
\* The shell

\* Mutant: the connection of a call that raised is kept alive with the
\* exception and never closed.
ReleasedOnReturnOnly(r) == IF r.err = "" THEN r.opened ELSE 0

\* The connections of a call that are closed by the time its handler is
\* done.  The connection is a local of the repository function: the block
\* `with get_conn() as conn` commits or rolls back, and the connection is
\* closed when the function's frame is released, on return at once and
\* after an exception when the handler's except clause ends.
Released(r) == r.opened

\* The record of a handler's run: the lines read, the repository call made
\* (args, <<>> when none was made) and its outcome, the line logged, and the
\* table as it was before.
Last(op, lines, args, r, msg) ==
    [op |-> op, lines |-> lines, args |-> args, err |-> r.err, ret |-> r.ret,
     rows |-> r.rows, opened |-> r.opened, closed |-> Released(r),
     stmts |-> r.stmts, msg |-> msg,
     before |-> students]

\* Mutant: a handler without its except clause; the error ends the process.
ResumeUncaught(r) == IF r.err # "" THEN "crashed" ELSE "menu"

\* Each handler catches Exception and logs it; main()'s loop goes on.
Resume(r) == "menu"

NoCall == [err |-> "", ret |-> 0, rows |-> <<>>, opened |-> 0, stmts |-> 0]


Init ==
    /\ pc = "start"
    /\ exitCode = -1
    /\ env \in ShellEnvs
    /\ tableExists = FALSE
    /\ students = <<>>
    /\ nextId = 1
    /\ now = 0
    /\ openConns = 0
    /\ menuPrinted = FALSE
    /\ last = Last("none", <<>>, <<>>, NoCall, "")
    /\ ledger = <<>>

\* main(), up to the first menu: init_db(), and sys.exit(1) if it raises.
Startup ==
    /\ pc = "start"
    /\ \E reachable \in BOOLEAN, permitted \in BOOLEAN :
         LET r == init_db(env, reachable, permitted, tableExists)
             p == get_conn_params(env)
             args == IF p.err = "" THEN <<p>> ELSE <<>>
             call == [err |-> r.err, ret |-> 0, rows |-> <<>>,
                      opened |-> r.opened, stmts |-> r.stmts]
         IN  /\ tableExists' = r.exists
             /\ openConns' = openConns + r.opened - Released(r)
             /\ IF r.err # ""
                THEN /\ pc' = "aborted"
                     /\ exitCode' = 1
                     /\ menuPrinted' = menuPrinted
                     /\ last' = Last("init", <<>>, args, call, "Initialization error")
                ELSE /\ pc' = "menu"
                     /\ exitCode' = exitCode
                     /\ menuPrinted' = TRUE
                     /\ last' = Last("init", <<>>, args, call, "Database initialized")
    /\ UNCHANGED <<env, students, nextId, now, ledger>>

\* Choice "1": handle_create().
handle_create ==
    /\ pc = "menu" /\ now < MaxNow /\ nextId <= MaxId
    /\ \E choice1 \in {c \in ChoiceLines : strip(c) = ChoiceCreate},
          nameLine \in TextLines, emailLine \in TextLines, reachable \in BOOLEAN :
         LET name == strip(nameLine)
             email == strip(emailLine)
             r == create_student(env, reachable, students, nextId, now + 1, name, email)
         IN  /\ students' = r.tbl
             /\ nextId' = r.seq
             /\ openConns' = openConns + r.opened - Released(r)
             /\ pc' = Resume(r)
             /\ last' = Last("create", <<choice1, nameLine, emailLine>>, <<name, email>>, r,
                             IF r.err = "" THEN "Created student with ID"
                             ELSE "Create error")
             /\ ledger' = IF r.err = ""
                          THEN (r.ret :> [name |-> name, email |-> email, live |-> TRUE])
                               @@ ledger
                          ELSE ledger
    /\ now' = now + 1
    /\ UNCHANGED <<exitCode, env, tableExists, menuPrinted>>

\* Choice "2": handle_list().
handle_list ==
    /\ pc = "menu" /\ now < MaxNow
    /\ \E choice2 \in {c \in ChoiceLines : strip(c) = ChoiceList},
          reachable \in BOOLEAN :
         LET r == list_students(env, reachable, students, nextId)
         IN  /\ openConns' = openConns + r.opened - Released(r)
             /\ pc' = Resume(r)
             /\ last' = Last("list", <<choice2>>, <<>>, r,
                             IF r.err # "" THEN "List error"
                             ELSE IF r.rows = <<>> THEN "No records found"
                             ELSE "table")
    /\ now' = now + 1
    /\ UNCHANGED <<exitCode, env, tableExists, students, nextId, menuPrinted, ledger>>

\* Choice "3": handle_update().
handle_update ==
    /\ pc = "menu" /\ now < MaxNow
    /\ \E choice3 \in {c \in ChoiceLines : strip(c) = ChoiceUpdate},
          idLine \in IdLines, nameLine \in TextLines,
          emailLine \in TextLines, reachable \in BOOLEAN :
         LET id == PyInt(strip(idLine))
             name == OrNone(strip(nameLine))
             email == OrNone(strip(emailLine))
             r == update_student(env, reachable, students, nextId, id.val, name, email)
         IN  /\ IF ~id.ok
                THEN /\ last' = Last("update", <<choice3, idLine>>, <<>>, NoCall, "Invalid ID")
                     /\ UNCHANGED <<pc, students, openConns, ledger>>
                ELSE /\ students' = r.tbl
                     /\ openConns' = openConns + r.opened - Released(r)
                     /\ pc' = Resume(r)
                     /\ last' = Last("update", <<choice3, idLine, nameLine, emailLine>>,
                                     <<id.val, name, email>>, r,
                                     IF r.err = "" THEN "Updated row(s)"
                                     ELSE "Update error")
                     /\ ledger' =
                          IF r.err = "" /\ r.ret > 0 /\ id.val \in DOMAIN ledger
                          THEN [ledger EXCEPT
                                  ![id.val].name = IF name = NONE THEN @ ELSE name,
                                  ![id.val].email = IF email = NONE THEN @ ELSE email]
                          ELSE ledger
    /\ now' = now + 1
    /\ UNCHANGED <<exitCode, env, tableExists, nextId, menuPrinted>>

\* Choice "4": handle_delete().
handle_delete ==
    /\ pc = "menu" /\ now < MaxNow
    /\ \E choice4 \in {c \in ChoiceLines : strip(c) = ChoiceDelete},
          idLine \in IdLines, reachable \in BOOLEAN :
         LET id == PyInt(strip(idLine))
             r == delete_student(env, reachable, students, nextId, id.val)
         IN  /\ IF ~id.ok
                THEN /\ last' = Last("delete", <<choice4, idLine>>, <<>>, NoCall, "Invalid ID")
                     /\ UNCHANGED <<pc, students, openConns, ledger>>
                ELSE /\ students' = r.tbl
                     /\ openConns' = openConns + r.opened - Released(r)
                     /\ pc' = Resume(r)
                     /\ last' = Last("delete", <<choice4, idLine>>, <<id.val>>, r,
                                     IF r.err = "" THEN "Deleted row(s)"
                                     ELSE "Delete error")
                     /\ ledger' =
                          IF r.err = "" /\ r.ret > 0 /\ id.val \in DOMAIN ledger
                          THEN [ledger EXCEPT ![id.val].live = FALSE]
                          ELSE ledger
    /\ now' = now + 1
    /\ UNCHANGED <<exitCode, env, tableExists, nextId, menuPrinted>>

\* Choice "5": the farewell, and main() returns.
Quit ==
    /\ pc = "menu"
    /\ \E choice \in ChoiceLines :
         /\ strip(choice) = ChoiceQuit
         /\ last' = Last("quit", <<choice>>, <<>>, NoCall, "Goodbye")
    /\ pc' = "terminated"
    /\ exitCode' = 0
    /\ UNCHANGED <<env, tableExists, students, nextId, now, openConns, menuPrinted, ledger>>

\* Any other choice.
InvalidOption ==
    /\ pc = "menu"
    /\ \E choice \in ChoiceLines :
         /\ strip(choice) \notin {ChoiceCreate, ChoiceList, ChoiceUpdate,
                                  ChoiceDelete, ChoiceQuit}
         /\ last' = Last("invalid", <<choice>>, <<>>, NoCall, "Invalid option")
    /\ UNCHANGED <<pc, exitCode, env, tableExists, students, nextId, now, openConns,
                   menuPrinted, ledger>>

\* Standard input ends: input() raises EOFError, which no handler catches.
\* Every prompt of a handler precedes its repository call.
EndOfInput ==
    /\ pc = "menu"
    /\ pc' = "crashed"
    /\ exitCode' = 1
    /\ last' = Last("eof", <<>>, <<>>, [NoCall EXCEPT !.err = "EOFError"], "")
    /\ UNCHANGED <<env, tableExists, students, nextId, now, openConns, menuPrinted, ledger>>

Next ==
    \/ Startup
    \/ handle_create
    \/ handle_list
    \/ handle_update
    \/ handle_delete
    \/ Quit
    \/ InvalidOption
    \/ EndOfInput

Spec == Init /\ [][Next]_vars

\* The configuration resolver on every environment.
InitConfig ==
    /\ pc = "start"
    /\ exitCode = -1
    /\ env \in Envs
    /\ tableExists = FALSE
    /\ students = <<>>
    /\ nextId = 1
    /\ now = 0
    /\ openConns = 0
    /\ menuPrinted = FALSE
    /\ last = Last("none", <<>>, <<>>, NoCall, "")
    /\ ledger = <<>>

NextConfig == Startup

SpecConfig == InitConfig /\ [][NextConfig]_vars

----------------------------------------------------------------------------
\* Properties

Crud == {"create", "list", "update", "delete"}

\* The last handler sent its statement to the database.
Sent(op) == last.op = op /\ last.stmts = 1

SameRows(t1, t2) == Range(t1) = Range(t2) /\ Len(t1) = Len(t2)

\* C1: a Create, or an Update of an existing student, whose email is the
\* email of another existing student fails with a uniqueness error and leaves
\* the table as it was; no two stored students ever share an email.
C1_UniqueEmail ==
    /\ \A i, j \in DOMAIN students :
          i # j => students[i].email # students[j].email
    /\ (Sent("create") /\ \E r \in Range(last.before) : r.email = last.args[2])
          => last.err = "UniqueViolation" /\ students = last.before
    /\ (/\ Sent("update")
        /\ last.args[1] \in Ids(last.before)
        /\ \E r \in Range(last.before) :
              r.id # last.args[1] /\ r.email = last.args[3])
          => last.err = "UniqueViolation" /\ students = last.before

C1_Witness ==
    /\ Sent("update")
    /\ last.err = "UniqueViolation"
    /\ Len(students) = 2

\* What List() returns in the current state.
ListNow == list_students(env, TRUE, students, nextId).rows

Live == {id \in DOMAIN ledger : ledger[id].live}

\* C2: List() returns exactly the students created and not deleted, each
\* once, with the name and email of its creation or last update, in strictly
\* ascending order of id; with no students it returns the empty sequence.
C2_ListIsLedger ==
    /\ \A i \in 1..(Len(ListNow) - 1) : ListNow[i].id < ListNow[i + 1].id
    /\ {r.id : r \in Range(ListNow)} = Live
    /\ Len(ListNow) = Cardinality(Live)
    /\ \A r \in Range(ListNow) :
          r.name = ledger[r.id].name /\ r.email = ledger[r.id].email
    /\ Live = {} => ListNow = <<>>
    /\ (last.op = "list" /\ last.err = "") => last.rows = ListNow
    /\ (last.op = "list" /\ last.opened = 1) => last.err = ""

C2_Witness ==
    /\ last.op = "list"
    /\ last.err = ""
    /\ Len(last.rows) = 2
    /\ last.rows[1].id < last.rows[2].id

\* C3: a successful Update changes only the supplied fields of the row with
\* that id; the row's id and created_at, and every other row, stay as they
\* were.
C3_UpdateFrame ==
    (last.op = "update" /\ last.err = "" /\ last.ret = 1) =>
        LET id == last.args[1]
            name == last.args[2]
            email == last.args[3]
            old == CHOOSE r \in Range(last.before) : r.id = id
        IN  /\ \E new \in Range(students) :
                  /\ new.id = id
                  /\ new.created_at = old.created_at
                  /\ new.name = IF name = NONE THEN old.name ELSE name
                  /\ new.email = IF email = NONE THEN old.email ELSE email
            /\ {r \in Range(students) : r.id # id}
                 = {r \in Range(last.before) : r.id # id}
            /\ Len(students) = Len(last.before)

C3_Witness ==
    /\ last.op = "update" /\ last.err = "" /\ last.ret = 1
    /\ last.args[2] = NONE /\ last.args[3] # NONE
    /\ Len(last.before) = 2
    /\ ~SameRows(students, last.before)
    /\ last.before[1].created_at < now

\* C4: Update with neither field supplied returns 0, opens no connection,
\* sends no statement and leaves the table as it was, whether or not the id
\* exists; blank lines for both fields reach Update as two absent values.
C4_EmptyUpdate ==
    /\ (/\ last.op = "update" /\ Len(last.lines) = 4
        /\ strip(last.lines[3]) = <<>> /\ strip(last.lines[4]) = <<>>)
          => last.args[2] = NONE /\ last.args[3] = NONE
    /\ (/\ last.op = "update" /\ last.args # <<>>
        /\ last.args[2] = NONE /\ last.args[3] = NONE)
          => /\ last.err = "" /\ last.ret = 0
             /\ last.opened = 0 /\ last.stmts = 0
             /\ students = last.before

C4_Witness ==
    /\ last.op = "update" /\ last.args # <<>>
    /\ last.args[2] = NONE /\ last.args[3] = NONE
    /\ last.lines[3] # <<>>
    /\ last.args[1] \in Ids(students)
    /\ last.ret = 0

\* C5: an Update with a field supplied, or a Delete, whose id matches no row
\* returns 0 without an error and leaves the table as it was; on an id that
\* matches a row, the value returned is exactly 1, and a Delete always
\* returns.
C5_RowsAffected ==
    /\ ((Sent("update") \/ Sent("delete")) /\ last.args[1] \notin Ids(last.before))
          => last.err = "" /\ last.ret = 0 /\ students = last.before
    /\ ((Sent("update") \/ Sent("delete")) /\ last.args[1] \in Ids(last.before)
          /\ last.err = "")
          => last.ret = 1
    /\ Sent("delete") => last.err = ""

C5_Witness ==
    /\ Sent("delete")
    /\ last.args[1] \notin Ids(last.before)
    /\ last.before # <<>>
    /\ last.ret = 0

\* C6: Create fails with a constraint error and inserts no row if name or
\* email is empty or absent, so every stored student has a non-empty name and
\* a non-empty email, also after a blank line at the Name or Email prompt.
C6_NonEmptyFields ==
    /\ \A r \in Range(students) :
          r.name \notin {NONE, <<>>} /\ r.email \notin {NONE, <<>>}
    /\ (Sent("create") /\ (last.args[1] \in {NONE, <<>>} \/ last.args[2] \in {NONE, <<>>}))
          => last.err # "" /\ students = last.before

ErrorLine(op) ==
    CASE op = "create" -> "Create error"
      [] op = "list" -> "List error"
      [] op = "update" -> "Update error"
      [] op = "delete" -> "Delete error"

\* C7: after startup, an error raised by the repository call of choice 1, 2,
\* 3 or 4 is caught and logged and the shell is back at the menu; the shell
\* terminates only through choice "5", never through a failed call or an
\* invalid option.
C7_Resilient ==
    /\ (last.op \in Crud /\ last.err # "")
          => pc = "menu" /\ exitCode = -1 /\ last.msg = ErrorLine(last.op)
    /\ last.op \in Crud \cup {"invalid"} => pc = "menu"
    /\ pc = "terminated" => last.op = "quit" /\ strip(last.lines[1]) = ChoiceQuit

C7_Witness ==
    /\ last.op = "list"
    /\ last.err = "OperationalError"
    /\ last.msg = "List error"
    /\ pc = "menu"

MalformedPort(e) == e.PGPORT # NONE /\ ~PyInt(e.PGPORT).ok

\* C9: if init_db fails at startup (connection failure, permission error,
\* malformed port), the process logs the error and exits with code 1 without
\* printing the menu or calling create, list, update or delete; a quit through
\* choice "5" exits with code 0.
C9_FatalStartup ==
    /\ (pc # "start" /\ MalformedPort(env)) => pc = "aborted" /\ last.err = "ValueError"
    /\ (last.op = "init" /\ last.err # "")
          => pc = "aborted" /\ exitCode = 1 /\ last.msg = "Initialization error"
    /\ pc = "aborted"
          => /\ ~menuPrinted /\ last.op = "init" /\ last.err # ""
             /\ now = 0 /\ students = <<>> /\ ledger = <<>>
    /\ pc = "terminated" => exitCode = 0
    /\ pc = "menu" => menuPrinted /\ tableExists

C9_Witness ==
    /\ pc = "aborted"
    /\ exitCode = 1
    /\ last.err = "ValueError"

\* The value of a variable that is unset or empty is the default.
DefaultIfBlank(value, got, default) ==
    value \in {NONE, <<>>} => got = default

\* C10 as stated: the default for each variable that is absent or empty; only
\* a present, non-empty, non-numeric port is a configuration error.
C10_DefaultsForAbsentOrEmpty ==
    last.op = "init" =>
        /\ last.err = "ValueError"
             <=> (env.PGPORT \notin {NONE, <<>>} /\ ~PyInt(env.PGPORT).ok)
        /\ last.args # <<>> =>
             /\ DefaultIfBlank(env.PGHOST, last.args[1].host, Localhost)
             /\ DefaultIfBlank(env.PGPORT, last.args[1].port, 5432)
             /\ DefaultIfBlank(env.PGDATABASE, last.args[1].dbname, Postgres)
             /\ DefaultIfBlank(env.PGUSER, last.args[1].user, Postgres)
             /\ DefaultIfBlank(env.PGPASSWORD, last.args[1].password, Postgres)

\* The value of a variable that is unset is the default; a value that is set,
\* the empty string too, is passed on as it is.
DefaultIfUnset(value, got, default) ==
    got = IF value = NONE THEN default ELSE value

\* C10, amended: the default for each variable that is absent; a variable
\* set to the empty string is passed on empty; a port that is set and that
\* int() rejects, the empty string included, is a configuration error, and
\* int() accepts a number with the blanks of IntWhitespace around it.
C10_DefaultsForAbsent ==
    last.op = "init" =>
        /\ last.err = "ValueError"
             <=> env.PGPORT \in {<<>>, S(<<"x">>), <<28>> \o S(<<"8", "0">>),
                                 LongDigits}
        /\ last.err = "ValueError" => last.args = <<>> /\ last.opened = 0
        /\ last.err # "ValueError" =>
             /\ last.args # <<>>
             /\ DefaultIfUnset(env.PGHOST, last.args[1].host, Localhost)
             /\ last.args[1].port = IF env.PGPORT = NONE THEN 5432 ELSE 80
             /\ DefaultIfUnset(env.PGDATABASE, last.args[1].dbname, Postgres)
             /\ DefaultIfUnset(env.PGUSER, last.args[1].user, Postgres)
             /\ DefaultIfUnset(env.PGPASSWORD, last.args[1].password, Postgres)

C10_Witness ==
    /\ last.op = "init"
    /\ last.err = ""
    /\ env.PGHOST = <<>> /\ last.args[1].host = <<>>
    /\ env.PGPORT = <<9>> \o S(<<"8", "0">>) \o <<160>> /\ last.args[1].port = 80
    /\ env.PGUSER = NONE /\ last.args[1].user = Postgres

====
